---- MODULE Spec2Model ----
(***************************************************************************)
(* Model of scripts/prepare_nightly_release.py: one run of main().         *)
(*                                                                         *)
(* The environment of a run is the --next_version argument, the state of   *)
(* HEAD in the local git repository, the text of pyproject.toml and which  *)
(* git write command (if any) exits non-zero.  File contents are modelled  *)
(* as sequences of lines; toml.load / toml.dump are modelled as a parser   *)
(* and a serialiser over those lines, and Version() as validation plus     *)
(* PEP 440 normalisation.  Operating-system level I/O failures of open()   *)
(* for writing are outside the model.                                      *)
(***************************************************************************)
EXTENDS Integers, Sequences, FiniteSets, TLC

\* Largest number of lines of the pyproject.toml texts that are enumerated.
MaxLines == 3

\* Largest number of lines of the manifests of the runs checked for
\* termination.
MaxLinesLive == 1

----------------------------------------------------------------------------
(* Version() of pep440_version_utils / packaging *)

\* args.next_version when --next_version is not given (argparse default None)
NoneArg == "<None>"

NextVersionArgs ==
    {NoneArg, "", "not-a-version", "2.4.1.dev3", "2.4.1.DEV3", "v1.0"}

is_valid_version(s) == s \in {"2.4.1.dev3", "2.4.1.DEV3", "v1.0"}

\* str(Version(s)) for a valid s: the PEP 440 normal form
VersionStr(s) ==
    CASE s = "2.4.1.DEV3" -> "2.4.1.dev3"
      [] s = "v1.0"       -> "1.0"
      [] OTHER            -> s

\* Version without the validity check: whatever string comes in is kept
Version_unchecked(s) == [err |-> "none", str |-> VersionStr(s)]

\* Version(s): the regex search raises TypeError on None, InvalidVersion on
\* a string that does not match; otherwise the object prints as VersionStr(s)
Version(s) ==
    IF s = NoneArg THEN [err |-> "TypeError", str |-> ""]
    ELSE IF ~is_valid_version(s) THEN [err |-> "InvalidVersion", str |-> ""]
    ELSE [err |-> "none", str |-> VersionStr(s)]

parse_next_version(s) == Version(s)

----------------------------------------------------------------------------
(* File contents *)

VERSION_FILE_PATH == "rasa/version.py"
PYPROJECT_FILE_PATH == "pyproject.toml"

Comment(t) == [kind |-> "comment", key |-> <<>>, val |-> t]
Garbage    == [kind |-> "garbage", key |-> <<>>, val |-> "= ="]
KV(k, v)   == [kind |-> "kv", key |-> k, val |-> v]

\* the text write_version_file writes
VersionFileText(v) ==
    << Comment("# this file will automatically be changed,"),
       Comment("# do not add anything but the version number here!"),
       KV(<<"__version__">>, v) >>

OldVersionFile == [exists |-> TRUE, text |-> VersionFileText("2.4.0")]

K_name     == <<"tool", "poetry", "name">>
K_version  == <<"tool", "poetry", "version">>
K_packages == <<"tool", "poetry", "packages">>
MutatedKeys == {K_name, K_version, K_packages}

\* the lines a pyproject.toml is made of in the enumerated inputs
TomlLines ==
    { Comment("# nightly"),
      Garbage,
      KV(K_name, "rasa"),
      KV(<<"tool", "poetry", "description">>, "ML"),
      KV(<<"build-system", "requires">>, "poetry"),
      KV(<<"tool", "black", "line-length">>, "88"),
      KV(<<"tool">>, "1"),
      KV(<<"tool", "poetry">>, "x") }

SeqsUpTo(S, n) == UNION { [1..m -> S] : m \in 0..n }

PyprojectFiles ==
    { [exists |-> FALSE, text |-> <<>>] } \cup
    { [exists |-> TRUE, text |-> t] : t \in SeqsUpTo(TomlLines, MaxLines) }

----------------------------------------------------------------------------
(* toml.load *)

IsPrefix(p, k) == Len(p) <= Len(k) /\ SubSeq(k, 1, Len(p)) = p
IsStrictPrefix(p, k) == Len(p) < Len(k) /\ SubSeq(k, 1, Len(p)) = p

KVLines(text) == SelectSeq(text, LAMBDA l : l.kind = "kv")

\* a reader that skips the lines it cannot parse
TomlInvalid_lenient(text) ==
    LET kvs == KVLines(text) IN
    \/ \E i, j \in 1..Len(kvs) : i # j /\ kvs[i].key = kvs[j].key
    \/ \E i, j \in 1..Len(kvs) : IsStrictPrefix(kvs[i].key, kvs[j].key)

\* a text toml rejects: a syntax error, a key defined twice, or a key
\* that is both a value and a table
TomlInvalid(text) ==
    LET kvs == KVLines(text) IN
    \/ \E i \in 1..Len(text) : text[i].kind = "garbage"
    \/ \E i, j \in 1..Len(kvs) : i # j /\ kvs[i].key = kvs[j].key
    \/ \E i, j \in 1..Len(kvs) : IsStrictPrefix(kvs[i].key, kvs[j].key)

\* the dict toml.load returns, flattened: the keys in insertion order and
\* the value of each; comments and layout are not part of it
TomlDict(text) ==
    LET kvs == KVLines(text) IN
    [ keys |-> [i \in 1..Len(kvs) |-> kvs[i].key],
      val  |-> [k \in {kvs[i].key : i \in 1..Len(kvs)} |->
                  (CHOOSE l \in {kvs[i] : i \in 1..Len(kvs)} : l.key = k).val] ]

EmptyDict == [keys |-> <<>>, val |-> <<>>]

toml_load(file) ==
    IF ~file.exists THEN [err |-> "FileNotFoundError", data |-> EmptyDict]
    ELSE IF TomlInvalid(file.text)
         THEN [err |-> "TomlDecodeError", data |-> EmptyDict]
    ELSE [err |-> "none", data |-> TomlDict(file.text)]

----------------------------------------------------------------------------
(* dict access and item assignment *)

KeySet(d) == {d.keys[i] : i \in 1..Len(d.keys)}

\* d[p] is a table
IsTable(d, p) == \E k \in KeySet(d) : IsStrictPrefix(p, k)
\* d[p] is a value that is not a table
IsScalar(d, p) == p \in KeySet(d)

\* d[k] = v
SetItem(d, k, v) ==
    [ keys |-> IF k \in KeySet(d) THEN d.keys ELSE Append(d.keys, k),
      val  |-> [x \in KeySet(d) \cup {k} |-> IF x = k THEN v ELSE d.val[x]] ]

PackagesValue == "[{include = rasa}]"

\* data["tool"]["poetry"] = {...}: the poetry table replaced, not updated
SetPoetryFields_replace(d, v) ==
    IF IsScalar(d, <<"tool">>) THEN [err |-> "TypeError", data |-> d]
    ELSE IF ~IsTable(d, <<"tool">>) THEN [err |-> "KeyError", data |-> d]
    ELSE LET kept == SelectSeq(d.keys,
                       LAMBDA k : ~IsPrefix(<<"tool", "poetry">>, k))
             base == [ keys |-> kept,
                       val  |-> [k \in {kept[i] : i \in 1..Len(kept)} |->
                                   d.val[k]] ]
         IN [err |-> "none",
             data |-> SetItem(SetItem(SetItem(base, K_name, "rasa-nightly"),
                                      K_version, v),
                              K_packages, PackagesValue)]

\* data["tool"]["poetry"][...] = ... for the three fields
SetPoetryFields(d, v) ==
    IF IsScalar(d, <<"tool">>) THEN [err |-> "TypeError", data |-> d]
    ELSE IF ~IsTable(d, <<"tool">>) THEN [err |-> "KeyError", data |-> d]
    ELSE IF IsScalar(d, <<"tool", "poetry">>)
         THEN [err |-> "TypeError", data |-> d]
    ELSE IF ~IsTable(d, <<"tool", "poetry">>)
         THEN [err |-> "KeyError", data |-> d]
    ELSE [err |-> "none",
          data |-> SetItem(SetItem(SetItem(d, K_name, "rasa-nightly"),
                                   K_version, v),
                           K_packages, PackagesValue)]

----------------------------------------------------------------------------
(* toml.dump *)

RECURSIVE DumpKeys(_, _)
RECURSIVE DumpSections(_, _)

\* keys of one table (all sharing a prefix of length d) in the order
\* toml.dump writes them: the plain values first, then each sub-table
DumpKeys(ks, d) ==
    SelectSeq(ks, LAMBDA k : Len(k) = d + 1)
      \o DumpSections(SelectSeq(ks, LAMBDA k : Len(k) > d + 1), d)

DumpSections(ks, d) ==
    IF ks = <<>> THEN <<>>
    ELSE LET h == ks[1][d + 1] IN
         DumpKeys(SelectSeq(ks, LAMBDA k : k[d + 1] = h), d + 1)
           \o DumpSections(SelectSeq(ks, LAMBDA k : k[d + 1] # h), d)

\* a writer that emits the top-level values and the first table only
toml_dump_first_table(d) ==
    LET first == SelectSeq(d.keys, LAMBDA k : k[1] = d.keys[1][1])
        order == DumpKeys(first, 0)
    IN [i \in 1..Len(order) |-> KV(order[i], d.val[order[i]])]

toml_dump(d) ==
    LET order == DumpKeys(d.keys, 0) IN
    [i \in 1..Len(order) |-> KV(order[i], d.val[order[i]])]

----------------------------------------------------------------------------
(* git *)

Branches == {"main", "ATO-114", "main-2", "mai", "feature/x"}

\* HEAD of the working tree: on a branch, or detached
Heads ==
    { [detached |-> TRUE, ref |-> ""] } \cup
    { [detached |-> FALSE, ref |-> b] : b \in Branches }

\* which git write command exits non-zero in this environment
GitFailures == {"none", "tag", "push"}

\* git symbolic-ref --short HEAD: the branch name and a newline, or a
\* non-zero exit when HEAD is detached
git_symbolic_ref(h) ==
    IF h.detached THEN [rc |-> 128, out |-> <<>>]
    ELSE [rc |-> 0, out |-> <<h.ref, "\n">>]

\* output.decode().strip()
Strip(out) == SelectSeq(out, LAMBDA c : c # "\n")

\* the detached state reported as git names it instead of as "main"
git_current_branch_head(h) ==
    LET r == git_symbolic_ref(h) IN
    IF r.rc # 0 THEN "HEAD" ELSE Strip(r.out)[1]

git_current_branch(h) ==
    LET r == git_symbolic_ref(h) IN
    IF r.rc # 0 THEN "main" ELSE Strip(r.out)[1]

\* the guard without the legacy maintenance branch
git_current_branch_is_main_only_main(h) ==
    git_current_branch(h) = "main"

\* the guard as current_branch.startswith("main")
git_current_branch_is_main_startswith(h) ==
    git_current_branch(h) \in {"main", "main-2", "ATO-114"}

git_current_branch_is_main(h) ==
    LET current_branch == git_current_branch(h) IN
    current_branch = "main" \/ current_branch = "ATO-114"

----------------------------------------------------------------------------
(* main *)

VARIABLES
    next_version_arg,  \* args.next_version
    head,              \* HEAD of the local repository
    gitFailure,        \* the git write command that fails, if any
    pyproject0,        \* pyproject.toml as it is when the run starts
    pc,                \* the statement of main that runs next
    version,           \* str() of main's local `version`
    versionFile,       \* rasa/version.py
    pyproject,         \* pyproject.toml
    data,              \* the dict write_version_to_pyproject serialises
    branch,            \* main's local `branch`
    is_main,           \* what git_current_branch_is_main() returned
    tag,               \* main's local `tag`
    localTags,         \* tags of the local repository
    remoteTags,        \* tags of origin
    tagCalls,          \* number of `git tag` invocations
    pushCalls,         \* number of `git push` invocations
    exitCode,          \* exit status of the process, -1 while it runs
    uncaught,          \* the exception that left main uncaught, if any
    stdout             \* what has been printed

env == <<next_version_arg, head, gitFailure, pyproject0>>
vars == <<next_version_arg, head, gitFailure, pyproject0, pc, version,
          versionFile, pyproject, data, branch, is_main, tag, localTags,
          remoteTags, tagCalls, pushCalls, exitCode, uncaught, stdout>>

\* the state when main is entered, whatever the manifest
InitMain ==
    /\ next_version_arg \in NextVersionArgs
    /\ head \in Heads
    /\ gitFailure \in GitFailures
    /\ pyproject = pyproject0
    /\ versionFile = OldVersionFile
    /\ pc = "next_version"
    /\ version = ""
    /\ data = EmptyDict
    /\ branch = ""
    /\ is_main = "unset"
    /\ tag = ""
    /\ localTags = {}
    /\ remoteTags = {}
    /\ tagCalls = 0
    /\ pushCalls = 0
    /\ exitCode = -1
    /\ uncaught = "none"
    /\ stdout = <<>>

Init ==
    /\ pyproject0 \in PyprojectFiles
    /\ InitMain

\* an exception nothing catches: traceback, exit status 1
Raise(e) ==
    /\ pc' = "crashed"
    /\ uncaught' = e
    /\ exitCode' = 1

\* sys.exit(1)
SysExit1 ==
    /\ pc' = "exited"
    /\ exitCode' = 1
    /\ UNCHANGED uncaught

Goto(l) ==
    /\ pc' = l
    /\ UNCHANGED <<exitCode, uncaught>>

\* lines 151-155: the banner, then version = next_version(args)
NextVersion ==
    /\ UNCHANGED is_main
    /\ pc = "next_version"
    /\ stdout' = Append(stdout, "The release script will temporarily change the version number")
    /\ LET r == parse_next_version(next_version_arg) IN
       IF r.err # "none"
       THEN Raise(r.err) /\ UNCHANGED version
       ELSE Goto("write_version_file") /\ version' = r.str
    /\ UNCHANGED <<env, versionFile, pyproject, data, branch, tag,
                   localTags, remoteTags, tagCalls, pushCalls>>

\* line 157: write_version_file(VERSION_FILE_PATH, version)
WriteVersionFile ==
    /\ UNCHANGED is_main
    /\ pc = "write_version_file"
    /\ stdout' = Append(stdout, "this is the version file path")
    /\ versionFile' = [exists |-> TRUE, text |-> VersionFileText(version)]
    /\ Goto("write_version_to_pyproject")
    /\ UNCHANGED <<env, version, pyproject, data, branch, tag,
                   localTags, remoteTags, tagCalls, pushCalls>>

\* line 158: write_version_to_pyproject(PYPROJECT_FILE_PATH, version)
WriteVersionToPyproject ==
    /\ UNCHANGED is_main
    /\ pc = "write_version_to_pyproject"
    /\ LET l == toml_load(pyproject)
           m == SetPoetryFields(l.data, version)
       IN
       IF l.err = "FileNotFoundError" \/ (l.err = "none" /\ m.err = "TypeError")
       THEN /\ stdout' = Append(stdout, "Unable to update: file not found.")
            /\ SysExit1
            /\ UNCHANGED <<pyproject, data>>
       ELSE IF l.err = "TomlDecodeError"
       THEN /\ stdout' = Append(stdout, "Unable to parse: incorrect TOML file.")
            /\ SysExit1
            /\ UNCHANGED <<pyproject, data>>
       ELSE IF m.err # "none"
       THEN /\ Raise(m.err)
            /\ UNCHANGED <<pyproject, data, stdout>>
       ELSE /\ data' = m.data
            /\ pyproject' = [exists |-> TRUE, text |-> toml_dump(m.data)]
            /\ Goto("print_done_message")
            /\ UNCHANGED stdout
    /\ UNCHANGED <<env, version, versionFile, branch, tag,
                   localTags, remoteTags, tagCalls, pushCalls>>

\* line 160
PrintDoneMessage ==
    /\ UNCHANGED is_main
    /\ pc = "print_done_message"
    /\ stdout' = Append(stdout, "All done - changes for rasa nightly version are ready!")
    /\ Goto("git_current_branch")
    /\ UNCHANGED <<env, version, versionFile, pyproject, data, branch, tag,
                   localTags, remoteTags, tagCalls, pushCalls>>

\* line 162: branch = git_current_branch()
ReadBranch ==
    /\ UNCHANGED is_main
    /\ pc = "git_current_branch"
    /\ branch' = git_current_branch(head)
    /\ Goto("branch_guard")
    /\ UNCHANGED <<env, version, versionFile, pyproject, data, tag,
                   localTags, remoteTags, tagCalls, pushCalls, stdout>>

\* the guard that warns but does not exit
BranchGuard_no_exit ==
    /\ pc = "branch_guard"
    /\ is_main' = IF git_current_branch_is_main(head) THEN "true" ELSE "false"
    /\ stdout' = IF git_current_branch_is_main(head) THEN stdout
                 ELSE Append(stdout, "You are currently not on the main branch.")
    /\ tag' = version
    /\ Goto("tag_commit")
    /\ UNCHANGED <<env, version, versionFile, pyproject, data, branch,
                   localTags, remoteTags, tagCalls, pushCalls>>

\* the guard that tags with the raw argument instead of str(version)
BranchGuard_raw_tag ==
    /\ pc = "branch_guard"
    /\ is_main' = IF git_current_branch_is_main(head) THEN "true" ELSE "false"
    /\ IF ~git_current_branch_is_main(head)
       THEN /\ stdout' = Append(stdout, "You are currently not on the main branch.")
            /\ SysExit1
            /\ UNCHANGED tag
       ELSE /\ tag' = next_version_arg
            /\ Goto("tag_commit")
            /\ UNCHANGED stdout
    /\ UNCHANGED <<env, version, versionFile, pyproject, data, branch,
                   localTags, remoteTags, tagCalls, pushCalls>>

\* lines 163-171: the guard, then tag = str(version)
BranchGuard ==
    /\ pc = "branch_guard"
    /\ is_main' = IF git_current_branch_is_main(head) THEN "true" ELSE "false"
    /\ IF ~git_current_branch_is_main(head)
       THEN /\ stdout' = Append(stdout, "You are currently not on the main branch.")
            /\ SysExit1
            /\ UNCHANGED tag
       ELSE /\ tag' = version
            /\ Goto("tag_commit")
            /\ UNCHANGED stdout
    /\ UNCHANGED <<env, version, versionFile, pyproject, data, branch,
                   localTags, remoteTags, tagCalls, pushCalls>>

\* tag_commit with call() in place of check_call(): the exit status is dropped
TagCommit_unchecked ==
    /\ UNCHANGED is_main
    /\ pc = "tag_commit"
    /\ stdout' = Append(stdout, "Applying tag to commit.")
    /\ tagCalls' = tagCalls + 1
    /\ localTags' = IF gitFailure = "tag" THEN localTags ELSE localTags \cup {tag}
    /\ Goto("push_tag")
    /\ UNCHANGED <<env, version, versionFile, pyproject, data, branch, tag,
                   remoteTags, pushCalls>>

\* line 172: tag_commit(tag)
TagCommit ==
    /\ UNCHANGED is_main
    /\ pc = "tag_commit"
    /\ stdout' = Append(stdout, "Applying tag to commit.")
    /\ tagCalls' = tagCalls + 1
    /\ IF gitFailure = "tag"
       THEN Raise("CalledProcessError") /\ UNCHANGED localTags
       ELSE Goto("push_tag") /\ localTags' = localTags \cup {tag}
    /\ UNCHANGED <<env, version, versionFile, pyproject, data, branch, tag,
                   remoteTags, pushCalls>>

\* line 173: push_tag(tag)
PushTag ==
    /\ UNCHANGED is_main
    /\ pc = "push_tag"
    /\ stdout' = Append(stdout, "Pushing tag to origin.")
    /\ pushCalls' = pushCalls + 1
    /\ IF gitFailure = "push"
       THEN Raise("CalledProcessError") /\ UNCHANGED remoteTags
       ELSE Goto("print_tag_release_done_message")
            /\ remoteTags' = remoteTags \cup localTags
    /\ UNCHANGED <<env, version, versionFile, pyproject, data, branch, tag,
                   localTags, tagCalls>>

\* line 175, then main returns
PrintTagReleaseDoneMessage ==
    /\ UNCHANGED is_main
    /\ pc = "print_tag_release_done_message"
    /\ stdout' = Append(stdout, "All done - tag for version was added and pushed to the remote")
    /\ pc' = "done"
    /\ exitCode' = 0
    /\ UNCHANGED <<env, version, versionFile, pyproject, data, branch, tag,
                   localTags, remoteTags, tagCalls, pushCalls, uncaught>>

Next ==
    \/ NextVersion
    \/ WriteVersionFile
    \/ WriteVersionToPyproject
    \/ PrintDoneMessage
    \/ ReadBranch
    \/ BranchGuard
    \/ TagCommit
    \/ PushTag
    \/ PrintTagReleaseDoneMessage

Spec == Init /\ [][Next]_vars

\* the manifests of the runs that are checked for termination
LivePyprojectFiles ==
    { [exists |-> FALSE, text |-> <<>>] } \cup
    { [exists |-> TRUE, text |-> t] :
        t \in SeqsUpTo({Comment("# nightly"), KV(K_name, "rasa")}, MaxLinesLive) }

InitLive ==
    /\ pyproject0 \in LivePyprojectFiles
    /\ InitMain

\* the interpreter runs the next statement of a process that has not ended
LiveSpec == InitLive /\ [][Next]_vars /\ WF_vars(Next)

TypeOK ==
    /\ pc \in {"next_version", "write_version_file",
               "write_version_to_pyproject", "print_done_message",
               "git_current_branch", "branch_guard", "tag_commit", "push_tag",
               "print_tag_release_done_message", "done", "exited", "crashed"}
    /\ exitCode \in {-1, 0, 1}
    /\ tagCalls \in 0..1
    /\ pushCalls \in 0..1

----------------------------------------------------------------------------
(* Vocabulary of the properties *)

AllowList == {"main", "ATO-114"}

ValidArg == is_valid_version(next_version_arg)

\* str(v) of the version the argument denotes
StrV == VersionStr(next_version_arg)

\* the text is not a TOML document: a line that is neither a comment nor
\* key = value, a key given twice, or a key used as a value and as a table
NotToml(text) ==
    \E i \in 1..Len(text) :
       \/ text[i].kind = "garbage"
       \/ /\ text[i].kind = "kv"
          /\ \E j \in 1..Len(text) :
                /\ j # i
                /\ text[j].kind = "kv"
                /\ IsPrefix(text[i].key, text[j].key)

\* the manifest parses and has the tool.poetry table the script edits
WellFormed(f) ==
    /\ f.exists
    /\ ~NotToml(f.text)
    /\ \E i \in 1..Len(f.text) :
          /\ f.text[i].kind = "kv"
          /\ IsStrictPrefix(<<"tool", "poetry">>, f.text[i].key)

\* the value of key k in the manifest file f as a TOML reader sees it
ManifestField(f, k) ==
    LET l == toml_load(f) IN
    IF l.err = "none" /\ k \in KeySet(l.data) THEN l.data.val[k] ELSE "<absent>"

\* every key of the manifest file f other than the three mutated ones
OtherKeys(f) ==
    LET l == toml_load(f) IN
    IF l.err = "none" THEN KeySet(l.data) \ MutatedKeys ELSE {}

FilesRewritten ==
    /\ versionFile = [exists |-> TRUE, text |-> VersionFileText(StrV)]
    /\ ManifestField(pyproject, K_version) = StrV
    /\ ManifestField(pyproject, K_name) = "rasa-nightly"

BeforeManifest ==
    pc \in {"next_version", "write_version_file", "write_version_to_pyproject"}

Terminated == pc \in {"done", "exited", "crashed"}

NoTagNoPush ==
    /\ tagCalls = 0
    /\ pushCalls = 0
    /\ localTags = {}
    /\ remoteTags = {}

\* write_version_to_pyproject reached toml.dump
ManifestWritten == data # EmptyDict

Last(q) == q[Len(q)]

----------------------------------------------------------------------------
(* C1 *)

C1Pre ==
    /\ ValidArg
    /\ WellFormed(pyproject0)
    /\ ~head.detached
    /\ head.ref \in AllowList
    /\ gitFailure = "none"

C1Success ==
    /\ pc = "done"
    /\ exitCode = 0
    /\ FilesRewritten
    /\ localTags = {StrV}
    /\ StrV \in remoteTags

\* C1: a run with a valid version, on an allow-listed branch, with a
\* well-formed manifest and no failing git command ends normally with exit
\* code 0, both files rewritten to v, the tag str(v) created and pushed.
C1_HappyPathCompletes == (pc = "next_version" /\ C1Pre) ~> C1Success

C1_Witness == C1Pre /\ C1Success /\ head.ref = "ATO-114"

----------------------------------------------------------------------------
(* C2 *)

C2Pre ==
    /\ ValidArg
    /\ WellFormed(pyproject0)
    /\ ~head.detached
    /\ head.ref \notin AllowList

\* C2: on a branch outside the allow-list (valid version, well-formed
\* manifest) both files are rewritten to v and stay so, the run can only end
\* by exiting with code 1 after the warning, and no tag is created or pushed.
C2_RejectedBranchKeepsFiles ==
    C2Pre =>
      /\ NoTagNoPush
      /\ ~BeforeManifest => FilesRewritten
      /\ pc \notin {"tag_commit", "push_tag",
                    "print_tag_release_done_message", "done", "crashed"}
      /\ Terminated =>
           /\ pc = "exited"
           /\ exitCode = 1
           /\ is_main = "false"
           /\ Last(stdout) = "You are currently not on the main branch."

C2_Witness ==
    /\ C2Pre
    /\ pc = "exited"
    /\ head.ref = "feature/x"
    /\ FilesRewritten
    /\ pyproject # pyproject0

----------------------------------------------------------------------------
(* C3 *)

----------------------------------------------------------------------------
(* C4 *)

----------------------------------------------------------------------------
(* C5 *)

\* C5: with a detached HEAD git_current_branch() returns "main", the guard
\* passes, and the run goes on to create and push the tag as on main.
C5_DetachedHeadIsMain ==
    head.detached =>
      /\ branch \in {"", "main"}
      /\ pc \notin {"next_version", "write_version_file",
                    "write_version_to_pyproject", "print_done_message",
                    "git_current_branch"} /\ ManifestWritten
           => branch = "main"
      /\ is_main # "false"
      /\ pc = "exited" => is_main = "unset"
      /\ is_main = "true" /\ Terminated /\ gitFailure = "none" =>
           /\ pc = "done"
           /\ localTags = {version}
           /\ remoteTags = {version}

C5_Witness ==
    /\ head.detached
    /\ branch = "main"
    /\ pc = "done"
    /\ remoteTags = {StrV}

----------------------------------------------------------------------------
(* C6 *)

ManifestBad(f) == ~f.exists \/ NotToml(f.text)

\* C6: a missing or unparsable manifest ends the run in
\* write_version_to_pyproject with exit code 1 after one diagnostic; the
\* manifest is untouched, the version file stays rewritten, no tag, no push.
C6_BadManifestExits1 ==
    ManifestBad(pyproject0) /\ ValidArg =>
      /\ pyproject = pyproject0
      /\ NoTagNoPush
      /\ pc \in {"next_version", "write_version_file",
                 "write_version_to_pyproject", "exited"}
      /\ pc = "exited" =>
           /\ exitCode = 1
           /\ uncaught = "none"
           /\ versionFile = [exists |-> TRUE, text |-> VersionFileText(StrV)]
           /\ Len(stdout) = 3
           /\ stdout[3] = IF pyproject0.exists
                          THEN "Unable to parse: incorrect TOML file."
                          ELSE "Unable to update: file not found."

C6_Witness ==
    /\ pc = "exited"
    /\ pyproject0.exists
    /\ NotToml(pyproject0.text)
    /\ \E i \in 1..Len(pyproject0.text) : pyproject0.text[i].kind = "garbage"
    /\ \E i \in 1..Len(pyproject0.text) : pyproject0.text[i].key = K_name
    /\ versionFile # OldVersionFile

----------------------------------------------------------------------------
(* C7 *)

\* C7: on a well-formed manifest the rewrite sets tool.poetry.name to
\* "rasa-nightly", tool.poetry.version to str(v) and tool.poetry.packages to
\* the fixed list, and every other key keeps the value it had.
C7_ThreeFieldsSetOthersKept ==
    ManifestWritten =>
      /\ data.val[K_name] = "rasa-nightly"
      /\ data.val[K_version] = StrV
      /\ data.val[K_packages] = PackagesValue
      /\ ManifestField(pyproject, K_name) = "rasa-nightly"
      /\ ManifestField(pyproject, K_version) = StrV
      /\ ManifestField(pyproject, K_packages) = PackagesValue
      /\ \A k \in OtherKeys(pyproject0) :
            /\ k \in KeySet(data)
            /\ data.val[k] = ManifestField(pyproject0, k)

C7_Witness ==
    /\ ManifestWritten
    /\ ManifestField(pyproject0, K_name) = "rasa"
    /\ <<"build-system", "requires">> \in OtherKeys(pyproject0)
    /\ <<"tool", "poetry", "description">> \in OtherKeys(pyproject0)

----------------------------------------------------------------------------
(* C8 *)

OtherLines(text) == SelectSeq(text, LAMBDA l : l.key \notin MutatedKeys)

\* C8 as stated: apart from the lines of the three mutated fields the file
\* written back is, line for line, the file that was read.
C8_ByteForByte ==
    ManifestWritten => OtherLines(pyproject.text) = OtherLines(pyproject0.text)

\* C8 (amended): apart from the three mutated fields the file written back
\* holds exactly the keys and values of the file read; comments and the
\* order of the lines are not kept.
C8_OtherKeysAndValuesKept ==
    ManifestWritten =>
      /\ toml_load(pyproject).err = "none"
      /\ OtherKeys(pyproject) = OtherKeys(pyproject0)
      /\ \A k \in OtherKeys(pyproject0) :
            ManifestField(pyproject, k) = ManifestField(pyproject0, k)
      /\ \A i \in 1..Len(pyproject.text) : pyproject.text[i].kind = "kv"

C8_Witness ==
    /\ ManifestWritten
    /\ \E i \in 1..Len(pyproject0.text) : pyproject0.text[i].kind = "comment"
    /\ <<"tool", "black", "line-length">> \in OtherKeys(pyproject)
    /\ OtherLines(pyproject.text) # OtherLines(pyproject0.text)

----------------------------------------------------------------------------
(* C9 *)

\* C9: a failing `git tag` or `git push` kills the run with an uncaught
\* CalledProcessError, once and without undoing anything: after a failed tag
\* no push is attempted; after a failed push the local tag is still there;
\* in both cases the version file and the manifest stay rewritten.
C9_GitFailureIsFatal ==
    /\ gitFailure = "tag" =>
         pc \notin {"push_tag", "print_tag_release_done_message", "done"}
    /\ gitFailure = "push" =>
         pc \notin {"print_tag_release_done_message", "done"}
    /\ uncaught = "CalledProcessError" =>
         /\ pc = "crashed"
         /\ exitCode = 1
         /\ gitFailure \in {"tag", "push"}
         /\ FilesRewritten
         /\ tagCalls = 1
         /\ remoteTags = {}
         /\ gitFailure = "tag" => pushCalls = 0 /\ localTags = {}
         /\ gitFailure = "push" => pushCalls = 1 /\ localTags = {tag}

C9_Witness ==
    /\ uncaught = "CalledProcessError"
    /\ gitFailure = "push"
    /\ localTags = {StrV}
    /\ pyproject # pyproject0

----------------------------------------------------------------------------
(* C10 *)

\* C10: whenever the run has created a tag, the tag is str(v), the version
\* file and the manifest already carry v and the guard returned true; a push
\* is attempted only after a successful tag; and there is at most one
\* `git tag` and one `git push` per run.
C10_TagOrdering ==
    /\ localTags # {} =>
         /\ localTags = {StrV}
         /\ FilesRewritten
         /\ is_main = "true"
    /\ pushCalls > 0 => localTags # {} /\ tagCalls = 1
    /\ tagCalls <= 1
    /\ pushCalls <= 1

C10_Witness ==
    /\ next_version_arg = "v1.0"
    /\ localTags = {"1.0"}
    /\ pushCalls = 1
    /\ pc = "done"

====
